---- MODULE Spec2Model ----
(***************************************************************************)
(* A model of Framework/framework_add_batchnorm.py: the CIFAR10 training   *)
(* script (evaluate, fit, the chained training phases and the final test   *)
(* evaluation), the shape arithmetic of CIFAR10Model.forward, the          *)
(* train/validation split and the metric aggregation of evaluate.          *)
(*                                                                         *)
(* Numbers that the library computes in floating point are kept exactly:   *)
(* an accuracy is a reduced fraction <<p, q>>, a cross-entropy loss is the *)
(* record of the scores and labels it is computed from, a gradient is the  *)
(* sequence of losses back-propagated into it, and the parameters are the  *)
(* sequence of the updates written to them.  Learning rates are counted in *)
(* units of 1e-4.                                                          *)
(***************************************************************************)
EXTENDS Integers, Sequences, FiniteSets, TLC

VARIABLES
    pc,            \* position of the script / of fit / of evaluate
    caller,        \* the call site evaluate returns to: "L274","L129","L298","L300"
    phase,         \* index of the current fit call of lines 282-288 (0 before)
    epoch,         \* fit: the loop variable of line 121
    train_iter,    \* fit: the batches of the current pass over train_loader
    ti,            \* fit: index of the current training batch in train_iter
    loss,          \* fit: the loss tensor of line 124 (None between batches)
    vi,            \* evaluate: index of the next batch of the loader
    outputs,       \* evaluate: the list built on line 115
    result,        \* the value evaluate returned last
    fit_history,   \* fit: the local list `history` of line 119
    history,       \* the script's global `history` (line 274, 282-288)
    printed,       \* the lines epoch_end printed, as <<epoch, result>>
    cell_out,      \* the value of the bare expression of line 298
    final_result,  \* line 300
    model,         \* the CIFAR10Model instance
    optimizer,     \* fit: the optimizer object of line 120
    rng,           \* the state of torch's global random generator
    dropout_mask,  \* the noise dropout1 applied in the last forward pass
    val_ds,        \* the validation partition
    test_ds,       \* the test partition
    opt_func,      \* the opt_func argument of fit
    fwd,           \* one call of CIFAR10Model.forward, followed layer by layer
    split          \* the train/validation split of lines 52-57

scriptVars == <<pc, caller, phase, epoch, train_iter, ti, loss, vi, outputs,
                result, fit_history, history, printed, cell_out, final_result,
                model, optimizer, rng, dropout_mask, val_ds, test_ds, opt_func>>

vars == <<scriptVars, fwd, split>>

None == "None"

----------------------------------------------------------------------------
(* Bounds of the model.                                                    *)

NumTrain == 3       \* samples in the training partition
NumVal == 3         \* samples in the validation partition
NumTest == 3        \* samples in the test partition
batch_size == 1     \* the script's batch_size (line 63), scaled down

----------------------------------------------------------------------------
(* Exact fractions.                                                        *)

RECURSIVE GCD(_, _)
GCD(a, b) == IF b = 0 THEN a ELSE GCD(b, a % b)

Frac(p, q) == LET g == GCD(p, q) IN <<p \div g, q \div g>>

FracAdd(x, y) == Frac(x[1] * y[2] + y[1] * x[2], x[2] * y[2])

RECURSIVE FracSum(_)
FracSum(s) == IF s = <<>> THEN <<0, 1>> ELSE FracAdd(Head(s), FracSum(Tail(s)))

\* torch.stack(xs).mean() of a non-empty list of fractions
FracMean(s) == LET t == FracSum(s) IN Frac(t[1], t[2] * Len(s))

----------------------------------------------------------------------------
(* Data.  A sample is the pair (image, label); the image is represented by *)
(* the activations relu(linear1(flatten(...))) it produces (lines 229-260),*)
(* the label is a class index.                                             *)

Corpus(i) ==
    IF i % 3 = 0 THEN [h |-> <<3, 1>>, y |-> 1]
    ELSE IF i % 3 = 1 THEN [h |-> <<1, 3>>, y |-> 2]
    ELSE [h |-> <<2, 2>>, y |-> 2]

\* a partition of n samples: the window of the corpus that starts after k
Partition(n, k) == [i \in 1..n |-> Corpus(i + k)]

train_ds == Partition(NumTrain, 0)

\* DataLoader without shuffle: the indices 1..n in order, in groups of bs,
\* the last group being smaller when bs does not divide n.
RECURSIVE Chunks(_, _)
Chunks(s, bs) ==
    IF s = <<>> THEN <<>>
    ELSE IF Len(s) <= bs THEN <<s>>
    ELSE <<SubSeq(s, 1, bs)>> \o Chunks(SubSeq(s, bs + 1, Len(s)), bs)

\* RandomSampler: the permutation of 1..n the generator state r selects
Shuffled(n, r) == [i \in 1..n |-> ((i - 1 + r) % n) + 1]

TrainBatches(r) == Chunks(Shuffled(NumTrain, r), batch_size)

Loader(ds) == Chunks([i \in 1..Len(ds) |-> i], batch_size * 2)

DatasetOf(name) == IF name = "val" THEN val_ds ELSE test_ds

----------------------------------------------------------------------------
(* The random generator: torch's global generator, advanced by every draw. *)

Seeds == {0, 6}

NextRng(r) == (5 * r + 3) % 16

RECURSIVE RngAfter(_, _)
RngAfter(r, n) == IF n = 0 THEN r ELSE RngAfter(NextRng(r), n - 1)

\* the Bernoulli(1/2) keep-mask of n activations drawn at generator state r
BernoulliMask(r, n) == [j \in 1..n |-> (r \div (2 ^ (j + 1))) % 2]

----------------------------------------------------------------------------
(* CIFAR10Model (lines 207-264).                                           *)

\* nn.Module starts in training mode and the script never calls eval() or
\* train(): the flag has this value in every forward pass.
ModuleTraining == TRUE

\* the parameters of linear2 (line 219), classes x hidden
linear2 == [weight |-> << <<1, 0>>, <<0, 1>> >>, bias |-> <<0, 0>>]

RECURSIVE Dot(_, _)
Dot(w, x) == IF w = <<>> THEN 0 ELSE Head(w) * Head(x) + Dot(Tail(w), Tail(x))

Linear(layer, x) ==
    [c \in 1..Len(layer.weight) |-> Dot(layer.weight[c], x) + layer.bias[c]]

\* nn.BatchNorm2d.forward: in training mode the batch statistics normalise
\* the input and the running statistics are updated (num_batches_tracked
\* counts the updates); in eval mode the buffers are only read.
BatchNorm(training, tracked) == IF training THEN tracked + 1 ELSE tracked

\* nn.Dropout2d(0.5) on one sample's activations x at generator state r:
\* in training mode each activation is kept with probability 1/2 and the
\* kept ones are scaled by 1/(1 - 0.5); in eval mode it is the identity and
\* draws nothing.
DropoutMask(training, r, n) ==
    IF training THEN BernoulliMask(r, n) ELSE [j \in 1..n |-> 1]

Dropout(training, x, mask) ==
    IF training THEN [j \in 1..Len(x) |-> x[j] * mask[j] * 2] ELSE x

\* the generator states the samples of a batch of n draw their masks at
DrawStates(r, n) == [i \in 1..n |-> RngAfter(r, i - 1)]

\* forward (lines 227-264) on the batch `xs` (a sequence of samples) of the
\* model state m at generator state r: the scores, the dropout noise, the
\* model state and the generator state it leaves.
Forward(m, xs, r) ==
    LET n     == Len(xs)
        draws == DrawStates(r, n)
        masks == [i \in 1..n |-> DropoutMask(m.training, draws[i], Len(xs[i].h))]
        bn    == [k \in {"bn1", "bn2", "bn3"} |->
                    BatchNorm(m.training, BatchNorm(m.training, m.bn[k]))]
    IN [out   |-> [i \in 1..n |->
                     Linear(linear2, Dropout(m.training, xs[i].h, masks[i]))],
        masks |-> masks,
        model |-> [m EXCEPT !.bn = bn],
        rng   |-> IF m.training THEN RngAfter(r, n) ELSE r]

----------------------------------------------------------------------------
(* accuracy, training_step, validation_step, validation_epoch_end          *)
(* (lines 86-109).                                                         *)

\* torch.max(outputs, dim=1): the index of the first maximal score
RECURSIVE ArgMaxFrom(_, _, _)
ArgMaxFrom(row, best, c) ==
    IF c > Len(row) THEN best
    ELSE ArgMaxFrom(row, IF row[c] > row[best] THEN c ELSE best, c + 1)

ArgMax(row) == ArgMaxFrom(row, 1, 2)

Labels(xs) == [i \in 1..Len(xs) |-> xs[i].y]

NumCorrect(out, labels) ==
    Cardinality({i \in 1..Len(out) : ArgMax(out[i]) = labels[i]})

accuracy(out, labels) == Frac(NumCorrect(out, labels), Len(out))

\* F.cross_entropy(out, labels): kept as the data it is a function of
cross_entropy(out, labels) == [out |-> out, labels |-> labels]

validation_epoch_end(outs) ==
    [val_loss |-> [i \in 1..Len(outs) |-> outs[i].val_loss],
     val_acc  |-> FracMean([i \in 1..Len(outs) |-> outs[i].val_acc])]

----------------------------------------------------------------------------
(* The optimizer (line 120, 126, 127).                                     *)

OptFuncs == {"SGD", "Adam"}

\* opt_func(model.parameters(), lr): a new optimizer object.  `step` is the
\* per-instance state a stateful optimizer keeps (Adam's step count, which
\* its moment estimates follow); plain SGD keeps none.
\* variant: one optimizer object kept across the calls of fit, only its
\* learning rate being reset
KeepOptimizer(f, lr) ==
    IF phase = 1 THEN [kind |-> f, lr |-> lr, step |-> 0]
    ELSE [optimizer EXCEPT !.lr = lr]

NewOptimizer(f, lr) == [kind |-> f, lr |-> lr, step |-> 0]

\* loss.backward(): the gradient of the loss is added to .grad
Backward(m, l) == [m EXCEPT !.grad = Append(@, l)]

\* optimizer.step(): parameters whose .grad is None are skipped, the others
\* are written once
StepParams(opt, m) ==
    IF m.grad = <<>> THEN m
    ELSE [m EXCEPT !.params =
            Append(@, [lr |-> opt.lr, grad |-> m.grad, opt |-> opt.kind,
                       t |-> IF opt.kind = "Adam" THEN opt.step + 1 ELSE 0])]

StepState(opt, m) ==
    IF m.grad # <<>> /\ opt.kind = "Adam"
    THEN [opt EXCEPT !.step = @ + 1] ELSE opt

\* optimizer.zero_grad()
\* variant: the gradients are left in place
ZeroGradKeep(m) == m

ZeroGrad(m) == [m EXCEPT !.grad = <<>>]

----------------------------------------------------------------------------
(* The script (lines 268-303).                                             *)

\* lines 282-288: the chained calls of fit; lr in units of 1e-4
Phases == << [epochs |-> 10, lr |-> 1000], [epochs |-> 10, lr |-> 100],
             [epochs |-> 10, lr |-> 10],   [epochs |-> 10, lr |-> 1] >>

\* line 268: CIFAR10Model()
NewModel == [training |-> ModuleTraining,
             params   |-> <<>>,
             grad     |-> <<>>,
             bn       |-> [k \in {"bn1", "bn2", "bn3"} |-> 0]]

\* history += fit(...)
\* variant: history = fit(...)
Overwrite(h, more) == more

Extend(h, more) == h \o more

Init ==
    /\ pc = "evaluate"
    /\ caller = "L274"
    /\ phase = 0
    /\ epoch = 0
    /\ train_iter = <<>>
    /\ ti = 1
    /\ loss = None
    /\ vi = 1
    /\ outputs = <<>>
    /\ result = None
    /\ fit_history = <<>>
    /\ history = <<>>
    /\ printed = <<>>
    /\ cell_out = None
    /\ final_result = None
    /\ model = NewModel
    /\ optimizer = None
    /\ rng \in Seeds
    /\ dropout_mask = None
    /\ val_ds \in {Partition(NumVal, k) : k \in 0..1}
    /\ test_ds \in {Partition(NumTest, k) : k \in 1..2}
    /\ opt_func \in OptFuncs
    /\ fwd = None
    /\ split = None

LoaderName == IF caller \in {"L274", "L129"} THEN "val" ELSE "test"

\* evaluate, line 115: the list comprehension starts iterating the loader
EvaluateBegin ==
    /\ pc = "evaluate"
    /\ vi' = 1
    /\ outputs' = <<>>
    /\ pc' = "validation_step"
    /\ UNCHANGED <<caller, phase, epoch, train_iter, ti, loss, result,
                   fit_history, history, printed, cell_out, final_result,
                   model, optimizer, rng, dropout_mask, val_ds, test_ds,
                   opt_func,
                   fwd, split>>

\* evaluate, line 115 with validation_step (lines 97-102) on one batch
ValidationStep ==
    /\ pc = "validation_step"
    /\ vi <= Len(Loader(DatasetOf(LoaderName)))
    /\ LET ds    == DatasetOf(LoaderName)
           idx   == Loader(ds)[vi]
           batch == [i \in 1..Len(idx) |-> ds[idx[i]]]
           f     == Forward(model, batch, rng)
       IN /\ outputs' = Append(outputs,
                 [val_loss |-> cross_entropy(f.out, Labels(batch)),
                  val_acc  |-> accuracy(f.out, Labels(batch))])
          /\ model' = f.model
          /\ rng' = f.rng
          /\ dropout_mask' = f.masks
    /\ vi' = vi + 1
    /\ UNCHANGED <<pc, caller, phase, epoch, train_iter, ti, loss, result,
                   fit_history, history, printed, cell_out, final_result,
                   optimizer, val_ds, test_ds, opt_func,
                   fwd, split>>

\* evaluate, line 116: validation_epoch_end (lines 104-109) and the return
EvaluateReturn ==
    /\ pc = "validation_step"
    /\ vi > Len(Loader(DatasetOf(LoaderName)))
    /\ result' = validation_epoch_end(outputs)
    /\ pc' = caller
    /\ UNCHANGED <<caller, phase, epoch, train_iter, ti, loss, vi, outputs,
                   fit_history, history, printed, cell_out, final_result,
                   model, optimizer, rng, dropout_mask, val_ds, test_ds,
                   opt_func,
                   fwd, split>>

\* line 274: history = [evaluate(model, val_loader)]; then line 282
InitialHistory ==
    /\ pc = "L274"
    /\ history' = <<result>>
    /\ phase' = 1
    /\ pc' = "fit"
    /\ UNCHANGED <<caller, epoch, train_iter, ti, loss, vi, outputs, result,
                   fit_history, printed, cell_out, final_result, model,
                   optimizer, rng, dropout_mask, val_ds, test_ds, opt_func,
                   fwd, split>>

\* fit, lines 119-120
FitBegin ==
    /\ pc = "fit"
    /\ fit_history' = <<>>
    /\ optimizer' = NewOptimizer(opt_func, Phases[phase].lr)
    /\ epoch' = 0
    /\ pc' = "epoch"
    /\ UNCHANGED <<caller, phase, train_iter, ti, loss, vi, outputs, result,
                   history, printed, cell_out, final_result, model, rng,
                   dropout_mask, val_ds, test_ds, opt_func,
                   fwd, split>>

\* fit, lines 121 and 123: the next epoch starts a fresh shuffled pass over
\* train_loader (RandomSampler draws its seed from the global generator)
EpochBegin ==
    /\ pc = "epoch"
    /\ epoch < Phases[phase].epochs
    /\ train_iter' = TrainBatches(rng)
    /\ rng' = NextRng(rng)
    /\ ti' = 1
    /\ pc' = "training_step"
    /\ UNCHANGED <<caller, phase, epoch, loss, vi, outputs, result,
                   fit_history, history, printed, cell_out, final_result,
                   model, optimizer, dropout_mask, val_ds, test_ds, opt_func,
                   fwd, split>>

\* fit, line 124: training_step (lines 91-95) on the current batch
TrainingStep ==
    /\ pc = "training_step"
    /\ ti <= Len(train_iter)
    /\ LET idx   == train_iter[ti]
           batch == [i \in 1..Len(idx) |-> train_ds[idx[i]]]
           f     == Forward(model, batch, rng)
       IN /\ loss' = cross_entropy(f.out, Labels(batch))
          /\ model' = f.model
          /\ rng' = f.rng
          /\ dropout_mask' = f.masks
    /\ pc' = "backward"
    /\ UNCHANGED <<caller, phase, epoch, train_iter, ti, vi, outputs, result,
                   fit_history, history, printed, cell_out, final_result,
                   optimizer, val_ds, test_ds, opt_func,
                   fwd, split>>

\* fit, line 125
LossBackward ==
    /\ pc = "backward"
    /\ model' = Backward(model, loss)
    /\ pc' = "step"
    /\ UNCHANGED <<caller, phase, epoch, train_iter, ti, loss, vi, outputs,
                   result, fit_history, history, printed, cell_out,
                   final_result, optimizer, rng, dropout_mask, val_ds,
                   test_ds, opt_func,
                   fwd, split>>

\* fit, line 126
OptimizerStep ==
    /\ pc = "step"
    /\ model' = StepParams(optimizer, model)
    /\ optimizer' = StepState(optimizer, model)
    /\ pc' = "zero_grad"
    /\ UNCHANGED <<caller, phase, epoch, train_iter, ti, loss, vi, outputs,
                   result, fit_history, history, printed, cell_out,
                   final_result, rng, dropout_mask, val_ds, test_ds, opt_func,
                   fwd, split>>

\* fit, line 127, and the advance of the loop of line 123
OptimizerZeroGrad ==
    /\ pc = "zero_grad"
    /\ model' = ZeroGrad(model)
    /\ ti' = ti + 1
    /\ loss' = None
    /\ pc' = "training_step"
    /\ UNCHANGED <<caller, phase, epoch, train_iter, vi, outputs, result,
                   fit_history, history, printed, cell_out, final_result,
                   optimizer, rng, dropout_mask, val_ds, test_ds, opt_func,
                   fwd, split>>

\* fit, line 129: the training loader is exhausted, evaluate is called
\* variant: evaluate is called from inside the loop of line 123
ValidationPhaseEarly ==
    /\ pc = "training_step"
    /\ ti >= Len(train_iter)
    /\ caller' = "L129"
    /\ pc' = "evaluate"
    /\ UNCHANGED <<phase, epoch, train_iter, ti, loss, vi, outputs, result,
                   fit_history, history, printed, cell_out, final_result,
                   model, optimizer, rng, dropout_mask, val_ds, test_ds,
                   opt_func, fwd, split>>

ValidationPhase ==
    /\ pc = "training_step"
    /\ ti > Len(train_iter)
    /\ caller' = "L129"
    /\ pc' = "evaluate"
    /\ UNCHANGED <<phase, epoch, train_iter, ti, loss, vi, outputs, result,
                   fit_history, history, printed, cell_out, final_result,
                   model, optimizer, rng, dropout_mask, val_ds, test_ds,
                   opt_func,
                   fwd, split>>

\* fit, lines 130-131: epoch_end prints, the result is appended
EpochEnd ==
    /\ pc = "L129"
    /\ printed' = Append(printed, <<epoch, result>>)
    /\ fit_history' = Append(fit_history, result)
    /\ epoch' = epoch + 1
    /\ pc' = "epoch"
    /\ UNCHANGED <<caller, phase, train_iter, ti, loss, vi, outputs, result,
                   history, cell_out, final_result, model, optimizer, rng,
                   dropout_mask, val_ds, test_ds, opt_func,
                   fwd, split>>

\* fit, line 132, and the `history +=` of the call site (lines 282-288);
\* after the last phase the script goes on to line 298
FitReturn ==
    /\ pc = "epoch"
    /\ epoch >= Phases[phase].epochs
    /\ history' = Extend(history, fit_history)
    /\ IF phase < Len(Phases)
       THEN /\ phase' = phase + 1
            /\ pc' = "fit"
            /\ caller' = caller
       ELSE /\ phase' = phase
            /\ pc' = "evaluate"
            /\ caller' = "L298"
    /\ UNCHANGED <<epoch, train_iter, ti, loss, vi, outputs, result,
                   fit_history, printed, cell_out, final_result, model,
                   optimizer, rng, dropout_mask, val_ds, test_ds, opt_func,
                   fwd, split>>

\* line 298: the first test evaluation, whose value the cell displays;
\* then line 300 calls evaluate again
FirstTestResult ==
    /\ pc = "L298"
    /\ cell_out' = result
    /\ caller' = "L300"
    /\ pc' = "evaluate"
    /\ UNCHANGED <<phase, epoch, train_iter, ti, loss, vi, outputs, result,
                   fit_history, history, printed, final_result, model,
                   optimizer, rng, dropout_mask, val_ds, test_ds, opt_func,
                   fwd, split>>

\* lines 300-303
FinalResult ==
    /\ pc = "L300"
    /\ final_result' = result
    /\ pc' = "done"
    /\ UNCHANGED <<caller, phase, epoch, train_iter, ti, loss, vi, outputs,
                   result, fit_history, history, printed, cell_out, model,
                   optimizer, rng, dropout_mask, val_ds, test_ds, opt_func,
                   fwd, split>>

Next ==
    \/ EvaluateBegin
    \/ ValidationStep
    \/ EvaluateReturn
    \/ InitialHistory
    \/ FitBegin
    \/ EpochBegin
    \/ TrainingStep
    \/ LossBackward
    \/ OptimizerStep
    \/ OptimizerZeroGrad
    \/ ValidationPhase
    \/ EpochEnd
    \/ FitReturn
    \/ FirstTestResult
    \/ FinalResult

Spec == Init /\ [][Next]_vars

----------------------------------------------------------------------------
(* Properties of fit and evaluate.                                         *)

\* batches in one pass over train_loader (the same in every epoch)
NumTrainBatches == Len(TrainBatches(0))

RECURSIVE EpochsBefore(_)
EpochsBefore(k) == IF k <= 1 THEN 0 ELSE Phases[k - 1].epochs + EpochsBefore(k - 1)

\* epochs completed so far, over all calls of fit
EpochsDone == EpochsBefore(phase) + epoch

IsPrefix(s, t) == Len(s) <= Len(t) /\ SubSeq(t, 1, Len(s)) = s

InFit == phase >= 1 /\ pc \in {"epoch", "training_step", "backward", "step",
                               "zero_grad", "evaluate", "validation_step", "L129"}
                    /\ caller \in {"L274", "L129"}

\* C1: in fit every training batch causes exactly one optimizer update, in
\* the order backward, step, zero_grad: the gradients are clear when a batch
\* starts (also the first batch of a later phase), the update applies the
\* gradient of the current batch's loss alone, and when fit(epochs, ...)
\* returns the parameters have been written epochs * (number of training
\* batches) times by it.
C1_OneUpdatePerBatch ==
    /\ pc = "training_step" =>
          /\ model.grad = <<>>
          /\ ti <= Len(train_iter) =>
                Len(model.params) = EpochsDone * NumTrainBatches + (ti - 1)
    /\ pc = "backward" =>
          /\ model.grad = <<>>
          /\ Len(model.params) = EpochsDone * NumTrainBatches + (ti - 1)
    /\ pc = "step" =>
          /\ model.grad = <<loss>>
          /\ Len(model.params) = EpochsDone * NumTrainBatches + (ti - 1)
    /\ pc = "zero_grad" =>
          /\ Len(model.params) = EpochsDone * NumTrainBatches + ti
          /\ model.params[Len(model.params)].grad = <<loss>>
          /\ model.params[Len(model.params)].lr = Phases[phase].lr
    /\ (pc = "epoch" /\ epoch = Phases[phase].epochs) =>
          Len(model.params) - EpochsBefore(phase) * NumTrainBatches
             = Phases[phase].epochs * NumTrainBatches

\* the first batch of the second phase is about to be applied
C1_Witness ==
    /\ pc = "step" /\ phase = 2 /\ epoch = 0 /\ ti = 1
    /\ model.grad = <<loss>>
    /\ Len(model.params) = 10 * NumTrainBatches

\* C2: in every epoch of fit the validation pass starts only after all the
\* training batches of the epoch, runs once over the whole validation
\* loader without any optimizer update, and its result becomes exactly one
\* record of the history: fit(epochs, ...) returns `epochs` records, in
\* epoch order.
C2_ValidationAfterTraining ==
    /\ (InFit /\ caller = "L129" /\ pc \in {"evaluate", "validation_step", "L129"}) =>
          /\ ti = Len(train_iter) + 1
          /\ Len(train_iter) = NumTrainBatches
          /\ Len(model.params) = (EpochsDone + 1) * NumTrainBatches
          /\ model.grad = <<>>
    /\ (InFit /\ pc = "L129") =>
          /\ Len(outputs) = Len(Loader(val_ds))
          /\ result = validation_epoch_end(outputs)
    /\ InFit =>
          /\ Len(fit_history) = epoch
          /\ Len(printed) = EpochsDone
          /\ \A e \in 1..epoch :
                printed[EpochsBefore(phase) + e] = <<e - 1, fit_history[e]>>
    /\ (pc = "epoch" /\ epoch >= Phases[phase].epochs) =>
          Len(fit_history) = Phases[phase].epochs

\* a fit call is about to return its ten records
C2_Witness ==
    /\ pc = "epoch" /\ phase = 3 /\ epoch = 10
    /\ Len(fit_history) = 10
    /\ Len(printed) = 30

\* C3: a validation batch (inside fit or in a direct call of evaluate)
\* leaves the model's parameters and batch-norm statistics as they were.
C3_EvaluateLeavesModel ==
    [][pc = "validation_step" =>
          (model'.params = model.params /\ model'.bn = model.bn)]_vars

\* C4: the two test evaluations of lines 298 and 300, with no training step
\* in between, return identical results.
C4_EvaluateTwiceSame ==
    pc = "done" => final_result = cell_out

\* C5: in every forward pass made by validation_step dropout is inactive:
\* no activation is zeroed.
C5_NoDropoutInValidation ==
    (pc = "validation_step" /\ vi > 1) =>
        \A i \in 1..Len(dropout_mask) :
            \A j \in 1..Len(dropout_mask[i]) : dropout_mask[i][j] = 1

\* C6 as claimed: at the start of a later phase the optimizer's internal
\* state is the one the previous phase left.
C6_OptimizerStatePersists ==
    [][(pc = "fit" /\ phase > 1) => optimizer'.step = optimizer.step]_vars

\* C6 as amended: every fit call constructs its optimizer anew, so each
\* phase starts from the initial optimizer state with that phase's learning
\* rate, and the optimizer's state counts the updates of the current phase
\* only; the parameters learned in the earlier phases are still there.
C6_OptimizerFreshPerPhase ==
    /\ (pc = "epoch" /\ epoch = 0) =>
          /\ optimizer = [kind |-> opt_func, lr |-> Phases[phase].lr, step |-> 0]
          /\ Len(model.params) = EpochsBefore(phase) * NumTrainBatches
    /\ (InFit /\ opt_func = "Adam") =>
          optimizer.step = Len(model.params) - EpochsBefore(phase) * NumTrainBatches
    /\ (InFit /\ opt_func = "SGD") => optimizer.step = 0
    /\ InFit => optimizer.lr = Phases[phase].lr

\* the second phase starts: the learned parameters are there, the optimizer
\* state of the first phase is not
C6_Witness ==
    /\ pc = "epoch" /\ phase = 2 /\ epoch = 0 /\ opt_func = "Adam"
    /\ Len(model.params) > 0
    /\ optimizer.step = 0

\* C9: over the whole run the history is append-only (every step leaves the
\* records it had, in place) and after the fourth phase it holds 41 records:
\* the initial evaluation and the 40 per-epoch results in the order they
\* were reported.
C9_HistoryAppendOnly ==
    [][/\ IsPrefix(history, history')
       /\ pc' \in {"L298", "L300", "done"} =>
             /\ Len(history') = 41
             /\ \A i \in 1..40 : history'[i + 1] = printed'[i][2]
       /\ (pc = "L274") => history' = <<result>>
       /\ (pc' = "fit") => Len(history') = 1 + EpochsBefore(phase')]_vars

C9_Witness ==
    pc = "done" /\ Len(history) = 41 /\ Len(printed) = 40

\* C10: val_acc is the fraction of the samples of the whole partition that
\* the pass classified correctly.
C10_AccuracyOverPartition ==
    pc \in {"L274", "L129", "L298", "L300"} =>
        LET lens    == [i \in 1..Len(outputs) |-> Len(Loader(DatasetOf(LoaderName))[i])]
            correct == [i \in 1..Len(outputs) |->
                          <<outputs[i].val_acc[1] * (lens[i] \div outputs[i].val_acc[2]), 1>>]
        IN result.val_acc = Frac(FracSum(correct)[1], Len(DatasetOf(LoaderName)))

----------------------------------------------------------------------------
(* The tensor shapes of CIFAR10Model.forward (lines 207-264).              *)

MaxImages == 2      \* images in the batch given to forward: 1..MaxImages
MaxSide == 34       \* heights and widths tried: 30..MaxSide and a few others

\* the script while a single call of forward or the split is followed
ScriptIdle ==
    /\ pc = "idle"
    /\ caller = "L274"
    /\ phase = 0
    /\ epoch = 0
    /\ train_iter = <<>>
    /\ ti = 1
    /\ loss = None
    /\ vi = 1
    /\ outputs = <<>>
    /\ result = None
    /\ fit_history = <<>>
    /\ history = <<>>
    /\ printed = <<>>
    /\ cell_out = None
    /\ final_result = None
    /\ model = NewModel
    /\ optimizer = None
    /\ rng = 0
    /\ dropout_mask = None
    /\ val_ds = Partition(NumVal, 0)
    /\ test_ds = Partition(NumTest, 1)
    /\ opt_func = "SGD"

output_size == 10

conv1 == [kind |-> "Conv2d", in |-> 3, out |-> 9, k |-> 3, padding |-> 1]
conv2 == [kind |-> "Conv2d", in |-> 9, out |-> 9, k |-> 3, padding |-> 1]
maxpool1 == [kind |-> "MaxPool2d", k |-> 2, stride |-> 2]
conv3 == [kind |-> "Conv2d", in |-> 9, out |-> 18, k |-> 3, padding |-> 1]
conv4 == [kind |-> "Conv2d", in |-> 18, out |-> 18, k |-> 3, padding |-> 1]
conv5 == [kind |-> "Conv2d", in |-> 18, out |-> 36, k |-> 3, padding |-> 1]
conv6 == [kind |-> "Conv2d", in |-> 36, out |-> 36, k |-> 3, padding |-> 1]
linear1 == [kind |-> "Linear", in |-> 576, out |-> 100]
linear2_shape == [kind |-> "Linear", in |-> 100, out |-> output_size]
dropout1 == [kind |-> "Dropout2d"]
bn1 == [kind |-> "BatchNorm2d", num_features |-> 9]
bn2 == [kind |-> "BatchNorm2d", num_features |-> 18]
bn3 == [kind |-> "BatchNorm2d", num_features |-> 36]
relu == [kind |-> "relu"]
flatten == [kind |-> "flatten"]

\* the calls of forward, in order (lines 231-262)
ForwardLayers ==
    << conv1, relu, bn1, conv2, relu, bn1, maxpool1,
       conv3, relu, bn2, conv4, relu, bn2, maxpool1,
       conv5, relu, bn3, conv6, relu, bn3, maxpool1,
       flatten, linear1, relu, dropout1, linear2_shape >>

Raised == [ok |-> FALSE, dims |-> <<>>]
Tensor(dims) == [ok |-> TRUE, dims |-> dims]

\* nn.Conv2d, stride 1: (N, in, H, W) -> (N, out, H + 2p - k + 1, W + 2p - k + 1)
Conv2dShape(l, d) ==
    IF Len(d) # 4 \/ d[2] # l.in THEN Raised
    ELSE LET h == d[3] + 2 * l.padding - l.k + 1
             w == d[4] + 2 * l.padding - l.k + 1
         IN IF h < 1 \/ w < 1 THEN Raised ELSE Tensor(<<d[1], l.out, h, w>>)

\* variant: ceil_mode=True
MaxPool2dShapeCeil(l, d) ==
    IF Len(d) # 4 THEN Raised
    ELSE LET h == (d[3] - l.k + l.stride - 1) \div l.stride + 1
             w == (d[4] - l.k + l.stride - 1) \div l.stride + 1
         IN IF d[3] < l.k \/ d[4] < l.k THEN Raised
            ELSE Tensor(<<d[1], d[2], h, w>>)

\* nn.MaxPool2d(2, 2), ceil_mode=False: floor((H - k) / stride) + 1
MaxPool2dShape(l, d) ==
    IF Len(d) # 4 THEN Raised
    ELSE LET h == (d[3] - l.k) \div l.stride + 1
             w == (d[4] - l.k) \div l.stride + 1
         IN IF d[3] < l.k \/ d[4] < l.k THEN Raised
            ELSE Tensor(<<d[1], d[2], h, w>>)

\* nn.BatchNorm2d: a 4-D input with num_features channels; in training mode
\* more than one value per channel is required
BatchNorm2dShape(l, d, training) ==
    IF Len(d) # 4 \/ d[2] # l.num_features THEN Raised
    ELSE IF training /\ d[1] * d[3] * d[4] = 1 THEN Raised
    ELSE Tensor(d)

RECURSIVE Product(_)
Product(d) == IF d = <<>> THEN 1 ELSE Head(d) * Product(Tail(d))

\* torch.flatten(out, 1)
FlattenShape(d) == Tensor(<<d[1], Product(Tail(d))>>)

\* nn.Linear: the last dimension must be in_features
LinearShape(l, d) ==
    IF d[Len(d)] # l.in THEN Raised
    ELSE Tensor(SubSeq(d, 1, Len(d) - 1) \o <<l.out>>)

LayerShape(l, d) ==
    CASE l.kind = "Conv2d"      -> Conv2dShape(l, d)
      [] l.kind = "MaxPool2d"   -> MaxPool2dShape(l, d)
      [] l.kind = "BatchNorm2d" -> BatchNorm2dShape(l, d, ModuleTraining)
      [] l.kind = "flatten"     -> FlattenShape(d)
      [] l.kind = "Linear"      -> LinearShape(l, d)
      [] OTHER                  -> Tensor(d)

Channels == {1, 3, 4}
Sides == (30..MaxSide) \cup {1, 8, 16, 39, 40, 64, 128}

InitForward ==
    /\ ScriptIdle
    /\ split = None
    /\ \E n \in 1..MaxImages, c \in Channels, h \in Sides, w \in Sides :
          fwd = [xb |-> <<n, c, h, w>>, out |-> Tensor(<<n, c, h, w>>),
                 layer |-> 1, status |-> "running"]

\* one statement `out = layer(out)` of forward
ForwardLayer ==
    /\ fwd.status = "running"
    /\ fwd.layer <= Len(ForwardLayers)
    /\ LET o == LayerShape(ForwardLayers[fwd.layer], fwd.out.dims)
       IN /\ o.ok
          /\ fwd' = [fwd EXCEPT !.out = o, !.layer = @ + 1]
    /\ UNCHANGED <<scriptVars, split>>

\* the layer rejects its input: the exception leaves forward
ForwardRaise ==
    /\ fwd.status = "running"
    /\ fwd.layer <= Len(ForwardLayers)
    /\ ~ LayerShape(ForwardLayers[fwd.layer], fwd.out.dims).ok
    /\ fwd' = [fwd EXCEPT !.out = Raised, !.status = "raised"]
    /\ UNCHANGED <<scriptVars, split>>

\* line 264
ForwardReturn ==
    /\ fwd.status = "running"
    /\ fwd.layer > Len(ForwardLayers)
    /\ fwd' = [fwd EXCEPT !.status = "returned"]
    /\ UNCHANGED <<scriptVars, split>>

NextForward == ForwardLayer \/ ForwardRaise \/ ForwardReturn

SpecForward == InitForward /\ [][NextForward]_vars

\* C7 as claimed: forward returns (N score vectors of 10 classes) exactly
\* for batches of 3 x 32 x 32 images and fails for every other channel
\* count, height or width.
C7_OnlyExpectedShape ==
    fwd.status # "running" =>
        /\ fwd.status = "returned" <=>
              (fwd.xb[2] = 3 /\ fwd.xb[3] = 32 /\ fwd.xb[4] = 32)
        /\ fwd.status = "returned" => fwd.out.dims = <<fwd.xb[1], output_size>>

\* C7 as amended: forward returns exactly for batches of 3-channel images
\* whose height and width, each halved three times rounding down, leave 16
\* positions (the 576 = 36 * 16 inputs of linear1); it then returns N score
\* vectors of 10 classes.  Every other input fails: every channel count
\* other than 3, and every other spatial size.
C7_AcceptedShapes ==
    fwd.status # "running" =>
        /\ fwd.status = "returned" <=>
              (fwd.xb[2] = 3 /\ (fwd.xb[3] \div 8) * (fwd.xb[4] \div 8) = 16)
        /\ fwd.status = "returned" => fwd.out.dims = <<fwd.xb[1], output_size>>
        /\ fwd.xb[2] # 3 => (fwd.status = "raised" /\ fwd.layer = 1)
        /\ (fwd.xb[2] = 3 /\ fwd.xb[3] = 32 /\ fwd.xb[4] = 32) =>
              fwd.status = "returned"

\* a 33 x 33 batch went through all the layers
C7_Witness ==
    /\ fwd.status = "returned"
    /\ fwd.xb = <<2, 3, 33, 33>>
    /\ fwd.out.dims = <<2, 10>>

----------------------------------------------------------------------------
(* The train/validation split (lines 52-57).                               *)

MaxExtra == 3       \* corpus sizes tried: val_size .. val_size + MaxExtra, and 50000
MaxShift == 10      \* permutations tried: 2 * (MaxShift + 1)

val_size == 5000

CorpusSizes == (val_size .. val_size + MaxExtra) \cup {50000}

\* torch.randperm(n): the permutations of 0..n-1 tried are the rotations and
\* the reversed rotations
RandPerm(n, k, rev) ==
    [i \in 1..n |-> IF rev THEN (n - i + k) % n ELSE (i - 1 + k) % n]

\* train_size = len(dataset) - val_size
TrainSize(n) == n - val_size

\* the Python slice s[from:to], 0 <= from <= to <= len(s)
Slice(s, from, to) == SubSeq(s, from + 1, to)

RECURSIVE Sum(_)
Sum(s) == IF s = <<>> THEN 0 ELSE Head(s) + Sum(Tail(s))

\* variant: the lengths themselves taken as the offsets
NotAccumulated(lengths) == lengths

\* itertools.accumulate(lengths)
Accumulate(lengths) == [i \in 1..Len(lengths) |-> Sum(SubSeq(lengths, 1, i))]

\* torch.utils.data.random_split(dataset, lengths): the index lists of the
\* Subsets, or the ValueError
RandomSplit(n, lengths, perm) ==
    IF Sum(lengths) # n THEN [ok |-> FALSE, subsets |-> <<>>]
    ELSE [ok |-> TRUE,
          subsets |-> [j \in 1..Len(lengths) |->
                         Slice(perm, Accumulate(lengths)[j] - lengths[j],
                               Accumulate(lengths)[j])]]

InitSplit ==
    /\ ScriptIdle
    /\ fwd = None
    /\ \E n \in CorpusSizes :
          split = [pc |-> "L53", len |-> n, train_size |-> 0,
                   train_ds |-> <<>>, val_ds |-> <<>>]

\* lines 53-54
SplitSizes ==
    /\ split.pc = "L53"
    /\ split' = [split EXCEPT !.train_size = TrainSize(split.len), !.pc = "L57"]
    /\ UNCHANGED <<scriptVars, fwd>>

\* line 57
SplitDatasets ==
    /\ split.pc = "L57"
    /\ \E k \in 0..MaxShift, rev \in BOOLEAN :
          LET r == RandomSplit(split.len, <<split.train_size, val_size>>,
                               RandPerm(split.len, k, rev))
          IN IF r.ok
             THEN split' = [split EXCEPT !.train_ds = r.subsets[1],
                                         !.val_ds = r.subsets[2],
                                         !.pc = "L58"]
             ELSE split' = [split EXCEPT !.pc = "raised"]
    /\ UNCHANGED <<scriptVars, fwd>>

NextSplit == SplitSizes \/ SplitDatasets

SpecSplit == InitSplit /\ [][NextSplit]_vars

Items(s) == {s[i] : i \in 1..Len(s)}

\* C8: for every corpus of at least 5000 items the split succeeds and gives
\* two disjoint partitions whose sizes sum to the corpus size and that
\* together hold every corpus item exactly once (the len items of the two
\* partitions are corpus items and are len different ones); of 50000 items,
\* 5000 go to validation and 45000 to training.
C8_SplitPartitions ==
    /\ split.pc # "raised"
    /\ split.pc = "L58" =>
          /\ Len(split.train_ds) + Len(split.val_ds) = split.len
          /\ Len(split.val_ds) = 5000
          /\ \A i \in 1..Len(split.train_ds) : split.train_ds[i] \in 0..(split.len - 1)
          /\ \A i \in 1..Len(split.val_ds) : split.val_ds[i] \in 0..(split.len - 1)
          /\ Cardinality(Items(split.train_ds \o split.val_ds)) = split.len
          /\ split.len = 50000 => Len(split.train_ds) = 45000

C8_Witness ==
    /\ split.pc = "L58"
    /\ split.len = 50000
    /\ Len(split.train_ds) = 45000
    /\ Len(split.val_ds) = 5000
    /\ split.train_ds[1] = 49999
====
